---- MODULE Spec2Model ----
(***************************************************************************)
(* Model of weblazy/notify, src/main.go: the cryptocurrency price monitor. *)
(* One monitoring tick is modelled step by step (getAllPrices,             *)
(* checkPriceAlerts, one iteration of checkChangeAlerts per change rule,   *)
(* the two sends, one getHistoricalPrice call of logCurrentPrices per      *)
(* step).  Prices are integer valued; strings are sequences of one         *)
(* character strings; time is counted in clock units, Second units making  *)
(* one second.                                                             *)
(***************************************************************************)
EXTENDS Integers, Sequences, FiniteSets, TLC

\* ------------------------------------------------------------------------
\* Bounds of the model
\* ------------------------------------------------------------------------
\* clock units per second (the granularity at which time is observed)
Second == 2
\* number of ticker deliveries explored
MaxTicks == 2

\* ------------------------------------------------------------------------
\* Program constants and configuration
\* ------------------------------------------------------------------------
\* time.Minute, in seconds
Minute == 60
\* config.Monitor.AlertCooldownMinutes
AlertCooldownMinutes == 1
\* alertCooldown := time.Duration(config.Monitor.AlertCooldownMinutes) * time.Minute
alertCooldown == AlertCooldownMinutes * Minute * Second

Below == "<"
Above == ">"

\* config.PriceAlertRules
PriceAlertRules ==
  << [Symbol |-> "BTC", Threshold |-> 60000, Comparison |-> Below],
     [Symbol |-> "BTC", Threshold |-> 70000, Comparison |-> Above] >>

\* config.ChangeAlertRules
ChangeAlertRules ==
  << [Symbol |-> "ETH", ChangePercent |-> 5, Period |-> "daily"],
     [Symbol |-> "ETH", ChangePercent |-> 4, Period |-> "daily"],
     [Symbol |-> "BTC", ChangePercent |-> 5, Period |-> "15m"] >>

\* the symbols collected from both rule lists (the `symbols` set of the
\* single-symbol adapters and of logCurrentPrices)
Symbols ==
  {PriceAlertRules[i].Symbol : i \in DOMAIN PriceAlertRules}
    \cup {ChangeAlertRules[i].Symbol : i \in DOMAIN ChangeAlertRules}

\* symbolKey := symbol + "USDT"
SymbolKey(symbol) == symbol \o "USDT"

\* alertKey := fmt.Sprintf("%s_%s", symbolKey, rule.Period)
AlertKey(symbolKey, period) == symbolKey \o "_" \o period

\* ------------------------------------------------------------------------
\* Strings and numeric parsing
\* ------------------------------------------------------------------------
DigitChars == <<"0", "1", "2", "3", "4", "5", "6", "7", "8", "9">>

IsDigit(c) == \E i \in 1..10 : DigitChars[i] = c

DigitVal(c) == (CHOOSE i \in 1..10 : DigitChars[i] = c) - 1

\* the decimal text of a natural number, as an exchange writes it
RECURSIVE NumStr(_)
NumStr(n) ==
  IF n < 10 THEN <<DigitChars[n + 1]>>
  ELSE NumStr(n \div 10) \o <<DigitChars[(n % 10) + 1]>>

\* a text that is no number
BadStr == <<"x">>

\* length of the longest prefix of s made of digits
RECURSIVE DigitPrefixLen(_)
DigitPrefixLen(s) ==
  IF s = <<>> \/ ~IsDigit(Head(s)) THEN 0 ELSE 1 + DigitPrefixLen(Tail(s))

RECURSIVE DigitsValue(_, _)
DigitsValue(s, acc) ==
  IF s = <<>> THEN acc ELSE DigitsValue(Tail(s), acc * 10 + DigitVal(Head(s)))

\* fmt.Sscanf(str, "%f", &price): an optional sign, then the longest run of
\* digits; an error when there is no digit to read.  Input after the number
\* is ignored.
Sscanf(str) ==
  LET neg  == str # <<>> /\ Head(str) = "-"
      body == IF neg THEN Tail(str) ELSE str
      n    == DigitPrefixLen(body)
      v    == DigitsValue(SubSeq(body, 1, n), 0)
  IN  IF n = 0 THEN [err |-> TRUE, val |-> 0]
      ELSE [err |-> FALSE, val |-> IF neg THEN 0 - v ELSE v]

\* ------------------------------------------------------------------------
\* Price snapshots: map[string]float64, possibly nil
\* ------------------------------------------------------------------------
EmptyMap == [k \in {} |-> 0]

NilPrices == [isNil |-> TRUE, m |-> EmptyMap]

MakeMap(m) == [isNil |-> FALSE, m |-> m]

\* len(prices)
Len0(p) == Cardinality(DOMAIN p.m)

\* prices[key] = v
MapPut(m, key, v) == [k \in (DOMAIN m) \cup {key} |-> IF k = key THEN v ELSE m[k]]

\* ------------------------------------------------------------------------
\* What the exchanges may answer (inputs of the adapters)
\* ------------------------------------------------------------------------
\* current quotes Binance may report for a symbol
Quotes(symbol) == IF symbol = "BTC" THEN {59000, 60000} ELSE {209, 210}

\* the ticker entries of one symbol in a bulk answer: none, or one entry with
\* one of the price texts
TickerEntries(symbol, texts) ==
  {<<>>} \cup {<<[Symbol |-> SymbolKey(symbol), Price |-> t]>> : t \in texts}

\* []BinanceResponse: the request fails, or a list of tickers arrives
BinanceResponses ==
  {[err |-> TRUE, tickers |-> <<>>]}
    \cup {[err |-> FALSE, tickers |-> a \o b] :
            a \in TickerEntries("BTC", {NumStr(q) : q \in Quotes("BTC")} \cup {BadStr}),
            b \in TickerEntries("ETH", {NumStr(q) : q \in Quotes("ETH")})}

\* the quote of the exchanges asked after Binance
FallbackText(symbol) == NumStr(IF symbol = "BTC" THEN 59000 ELSE 210)

\* BybitResponse.Result.List: the request fails, or a list of tickers arrives
BybitResponses ==
  {[err |-> TRUE, tickers |-> <<>>], [err |-> FALSE, tickers |-> <<>>]}
    \cup {[err |-> FALSE,
           tickers |-> <<[Symbol |-> SymbolKey("BTC"), Price |-> a],
                         [Symbol |-> SymbolKey("ETH"), Price |-> b]>>] :
            a \in {FallbackText("BTC")}, b \in {FallbackText("ETH"), BadStr}}
    \cup {[err |-> FALSE,
           tickers |-> <<[Symbol |-> SymbolKey("BTC"), Price |-> BadStr],
                         [Symbol |-> SymbolKey("ETH"), Price |-> BadStr]>>]}

\* CoinbaseResponse per requested symbol: the request fails, or an amount
CoinbaseAnswers(symbol) ==
  {[err |-> TRUE, Amount |-> <<>>], [err |-> FALSE, Amount |-> FallbackText(symbol)]}
    \cup (IF symbol = "BTC" THEN {[err |-> FALSE, Amount |-> BadStr]} ELSE {})

CoinbaseResponses ==
  {[BTC |-> a, ETH |-> b] : a \in CoinbaseAnswers("BTC"), b \in CoinbaseAnswers("ETH")}

\* KrakenResponse per requested symbol: the request fails, or a result map,
\* given as the sequence of its entries' C lists in iteration order
KrakenAnswers(symbol) ==
  {[err |-> TRUE, Result |-> <<>>],
   [err |-> FALSE, Result |-> << <<FallbackText(symbol), <<"1">>>> >>]}
    \cup (IF symbol = "BTC"
            THEN {[err |-> FALSE, Result |-> <<>>], [err |-> FALSE, Result |-> << <<>> >>],
                  [err |-> FALSE, Result |-> << <<BadStr, <<"1">>>> >>]}
            ELSE {})

KrakenResponses ==
  {[BTC |-> a, ETH |-> b] : a \in KrakenAnswers("BTC"), b \in KrakenAnswers("ETH")}

\* a request that is never made
NoTickerResponse == [err |-> TRUE, tickers |-> <<>>]
NoCoinbaseResponse == [BTC |-> [err |-> TRUE, Amount |-> <<>>], ETH |-> [err |-> TRUE, Amount |-> <<>>]]
NoKrakenResponse == [BTC |-> [err |-> TRUE, Result |-> <<>>], ETH |-> [err |-> TRUE, Result |-> <<>>]]

\* ------------------------------------------------------------------------
\* Price source adapters
\* ------------------------------------------------------------------------
\* a variant that does not look at the error of Sscanf
RECURSIVE TickersToMapKeepUnparsed(_, _)
TickersToMapKeepUnparsed(tickers, m) ==
  IF tickers = <<>> THEN m
  ELSE LET t == Head(tickers)
           p == Sscanf(t.Price)
       IN  TickersToMapKeepUnparsed(Tail(tickers), MapPut(m, t.Symbol, p.val))

\* for _, ticker := range tickers { if Sscanf(...) == nil { prices[Symbol] = price } }
RECURSIVE TickersToMap(_, _)
TickersToMap(tickers, m) ==
  IF tickers = <<>> THEN m
  ELSE LET t == Head(tickers)
           p == Sscanf(t.Price)
       IN  TickersToMap(Tail(tickers),
                        IF p.err THEN m ELSE MapPut(m, t.Symbol, p.val))

getPricesFromBinance(resp) ==
  IF resp.err THEN [prices |-> NilPrices, err |-> TRUE]
  ELSE [prices |-> MakeMap(TickersToMap(resp.tickers, EmptyMap)), err |-> FALSE]

getPricesFromBybit(resp) ==
  IF resp.err THEN [prices |-> NilPrices, err |-> TRUE]
  ELSE [prices |-> MakeMap(TickersToMap(resp.tickers, EmptyMap)), err |-> FALSE]

\* a variant that gives up all prices when one request fails
RECURSIVE CoinbaseLoopFailFast(_, _, _)
CoinbaseLoopFailFast(todo, resp, m) ==
  IF todo = {} THEN m
  ELSE LET symbol == CHOOSE s \in todo : TRUE
           r      == resp[symbol]
           p      == Sscanf(r.Amount)
       IN  IF r.err THEN EmptyMap
           ELSE CoinbaseLoopFailFast(todo \ {symbol}, resp,
                                     IF p.err THEN m
                                     ELSE MapPut(m, SymbolKey(symbol), p.val))

\* the symbols of `todo` are requested one by one; a failed request or an
\* unparsable amount leaves the symbol out
RECURSIVE CoinbaseLoop(_, _, _)
CoinbaseLoop(todo, resp, m) ==
  IF todo = {} THEN m
  ELSE LET symbol == CHOOSE s \in todo : TRUE
           r      == resp[symbol]
           p      == Sscanf(r.Amount)
       IN  CoinbaseLoop(todo \ {symbol}, resp,
                        IF r.err \/ p.err THEN m
                        ELSE MapPut(m, SymbolKey(symbol), p.val))

getPricesFromCoinbase(resp) ==
  LET m == CoinbaseLoop(Symbols, resp, EmptyMap)
  IN  IF DOMAIN m = {} THEN [prices |-> NilPrices, err |-> TRUE]
      ELSE [prices |-> MakeMap(m), err |-> FALSE]

\* symbolMap of getPricesFromKraken
KrakenSymbols == {"BTC", "ETH", "SOL"}

RECURSIVE KrakenLoop(_, _, _)
KrakenLoop(todo, resp, m) ==
  IF todo = {} THEN m
  ELSE LET symbol == CHOOSE s \in todo : TRUE
           rest   == todo \ {symbol}
       IN  IF symbol \notin KrakenSymbols THEN KrakenLoop(rest, resp, m)
           ELSE LET r == resp[symbol]
                IN  IF r.err \/ r.Result = <<>> \/ Head(r.Result) = <<>>
                    THEN KrakenLoop(rest, resp, m)
                    ELSE LET p == Sscanf(Head(r.Result)[1])
                         IN  KrakenLoop(rest, resp,
                                        IF p.err THEN m
                                        ELSE MapPut(m, SymbolKey(symbol), p.val))

getPricesFromKraken(resp) ==
  LET m == KrakenLoop(Symbols, resp, EmptyMap)
  IN  IF DOMAIN m = {} THEN [prices |-> NilPrices, err |-> TRUE]
      ELSE [prices |-> MakeMap(m), err |-> FALSE]

\* ------------------------------------------------------------------------
\* Price aggregator
\* ------------------------------------------------------------------------
\* the `sources` slice of getAllPrices
SourceNames == <<"Binance", "Bybit", "Coinbase", "Kraken">>

\* source.fn()
CallSource(name, net) ==
  CASE name = "Binance"  -> getPricesFromBinance(net.Binance)
    [] name = "Bybit"    -> getPricesFromBybit(net.Bybit)
    [] name = "Coinbase" -> getPricesFromCoinbase(net.Coinbase)
    [] name = "Kraken"   -> getPricesFromKraken(net.Kraken)

\* a variant that takes any answer without an error, an empty one included
AcceptedIfNoError(r) == ~r.err

\* if err == nil && len(prices) > 0
Accepted(r) == ~r.err /\ Len0(r.prices) > 0

\* a variant that hands out an empty snapshot when every source failed
RECURSIVE TrySourcesEmptySnapshot(_, _, _)
TrySourcesEmptySnapshot(i, net, calls) ==
  IF i > Len(SourceNames)
    THEN [prices |-> MakeMap(EmptyMap), source |-> "", calls |-> calls]
  ELSE LET name == SourceNames[i]
           r    == CallSource(name, net)
           log  == Append(calls, [name |-> name, err |-> r.err, prices |-> r.prices])
       IN  IF Accepted(r) THEN [prices |-> r.prices, source |-> name, calls |-> log]
           ELSE TrySourcesEmptySnapshot(i + 1, net, log)

\* a variant that fills the accepted snapshot with the entries the adapters
\* after it have for other symbols
RECURSIVE TrySourcesMerged(_, _, _)
TrySourcesMerged(i, net, calls) ==
  IF i > Len(SourceNames) THEN [prices |-> NilPrices, source |-> "", calls |-> calls]
  ELSE LET name  == SourceNames[i]
           r     == CallSource(name, net)
           log   == Append(calls, [name |-> name, err |-> r.err, prices |-> r.prices])
           later == {CallSource(SourceNames[j], net) : j \in (i + 1)..Len(SourceNames)}
           keys  == DOMAIN r.prices.m \cup UNION {DOMAIN x.prices.m : x \in later}
           all   == [k \in keys |->
                      IF k \in DOMAIN r.prices.m THEN r.prices.m[k]
                      ELSE (CHOOSE x \in later : k \in DOMAIN x.prices.m).prices.m[k]]
       IN  IF Accepted(r) THEN [prices |-> MakeMap(all), source |-> name, calls |-> log]
           ELSE TrySourcesMerged(i + 1, net, log)

\* the loop over sources; calls is the record of the adapters invoked
RECURSIVE TrySources(_, _, _)
TrySources(i, net, calls) ==
  IF i > Len(SourceNames) THEN [prices |-> NilPrices, source |-> "", calls |-> calls]
  ELSE LET name == SourceNames[i]
           r    == CallSource(name, net)
           log  == Append(calls, [name |-> name, err |-> r.err, prices |-> r.prices])
       IN  IF Accepted(r) THEN [prices |-> r.prices, source |-> name, calls |-> log]
           ELSE TrySources(i + 1, net, log)

getAllPrices(net) == TrySources(1, net, <<>>)

\* the answers of the four exchanges to one getAllPrices call; an exchange
\* that is not asked has no answer
FetchInputs ==
  LET bad1 == {r \in BinanceResponses : ~Accepted(getPricesFromBinance(r))}
      bad2 == {r \in BybitResponses : ~Accepted(getPricesFromBybit(r))}
      bad3 == {r \in CoinbaseResponses : ~Accepted(getPricesFromCoinbase(r))}
  IN  {[Binance |-> r1, Bybit |-> NoTickerResponse, Coinbase |-> NoCoinbaseResponse,
        Kraken |-> NoKrakenResponse] : r1 \in BinanceResponses \ bad1}
      \cup {[Binance |-> r1, Bybit |-> r2, Coinbase |-> NoCoinbaseResponse,
             Kraken |-> NoKrakenResponse] : r1 \in bad1, r2 \in BybitResponses \ bad2}
      \cup {[Binance |-> r1, Bybit |-> r2, Coinbase |-> r3, Kraken |-> NoKrakenResponse] :
             r1 \in bad1, r2 \in bad2, r3 \in CoinbaseResponses \ bad3}
      \cup {[Binance |-> r1, Bybit |-> r2, Coinbase |-> r3, Kraken |-> r4] :
             r1 \in bad1, r2 \in bad2, r3 \in bad3, r4 \in KrakenResponses}

\* what getAllPrices may return, over all the answers of the exchanges
FetchResults == {getAllPrices(net) : net \in FetchInputs}

\* ------------------------------------------------------------------------
\* Candles (klines) and what the kline endpoints may answer
\* ------------------------------------------------------------------------
\* a JSON string / a JSON number with text v, as an element of a BinanceKline
\* ([]interface{})
JStr(v) == [t |-> "string", v |-> v]
JNum(v) == [t |-> "number", v |-> v]

\* a candle of the market: its open time (candle index), open and close price
Candle(openTime, open, close) == [openTime |-> openTime, open |-> open, close |-> close]

\* Binance kline: [openTime, open, high, low, close, volume, ...]
BinanceKlineOf(c) ==
  << JNum(NumStr(c.openTime)), JStr(NumStr(c.open)), JStr(NumStr(c.open)),
     JStr(NumStr(c.open)), JStr(NumStr(c.close)), JStr(NumStr(0)) >>

\* Bybit kline: [startTime, open, high, low, close, volume, turnover]
BybitKlineOf(c) ==
  << NumStr(c.openTime), NumStr(c.open), NumStr(c.open), NumStr(c.open),
     NumStr(c.close), NumStr(0), NumStr(0) >>

\* the last n elements of a sequence
LastN(s, n) == IF Len(s) <= n THEN s ELSE SubSeq(s, Len(s) - n + 1, Len(s))

RECURSIVE Reverse(_)
Reverse(s) == IF s = <<>> THEN <<>> ELSE Append(Reverse(Tail(s)), Head(s))

\* Binance answers limit=n with the n most recent candles, oldest first
BinanceKlines(history, n) ==
  LET cs == LastN(history, n) IN [i \in 1..Len(cs) |-> BinanceKlineOf(cs[i])]

\* Bybit answers limit=n with the n most recent candles, newest first
BybitKlines(history, n) ==
  LET cs == Reverse(LastN(history, n)) IN [i \in 1..Len(cs) |-> BybitKlineOf(cs[i])]

BinanceKlineError == [err |-> TRUE, klines |-> <<>>]
BinanceKlineOk(klines) == [err |-> FALSE, klines |-> klines]

BybitKlineError == [err |-> TRUE, RetCode |-> 0, List |-> <<>>]
BybitKlineOk(retCode, list) == [err |-> FALSE, RetCode |-> retCode, List |-> list]

\* ------------------------------------------------------------------------
\* Historical price resolver
\* ------------------------------------------------------------------------
\* results of the kline functions: a price, an error, or a run-time panic
\* (index out of range), which no caller recovers
Price(v)  == [price |-> v, err |-> FALSE, panic |-> FALSE]
Failure   == [price |-> 0, err |-> TRUE, panic |-> FALSE]
PanicOut  == [price |-> 0, err |-> FALSE, panic |-> TRUE]

\* openPriceStr, ok := klines[i][j].(string), then Sscanf; i, j are the Go
\* (0-based) indexes
BinanceField(klines, i, j) ==
  IF Len(klines[i + 1]) <= j THEN PanicOut
  ELSE LET f == klines[i + 1][j + 1]
       IN  IF f.t # "string" THEN Failure
           ELSE LET p == Sscanf(f.v)
                IN  IF p.err THEN Failure ELSE Price(p.val)

\* result.Result.List[i][j], then Sscanf
BybitField(list, i, j) ==
  IF Len(list[i + 1]) <= j THEN PanicOut
  ELSE LET p == Sscanf(list[i + 1][j + 1])
       IN  IF p.err THEN Failure ELSE Price(p.val)

getDailyOpenPriceFromBinance(resp) ==
  IF resp.err THEN Failure
  ELSE IF Len(resp.klines) = 0 THEN Failure
  ELSE BinanceField(resp.klines, 0, 1)

getDailyOpenPriceFromBybit(resp) ==
  IF resp.err THEN Failure
  ELSE IF resp.RetCode # 0 THEN Failure
  ELSE IF Len(resp.List) = 0 THEN Failure
  ELSE BybitField(resp.List, 0, 1)

\* a variant that is content with one candle and reads the last one
get15mAgoPriceFromBinanceOneCandle(resp) ==
  IF resp.err THEN Failure
  ELSE IF Len(resp.klines) < 1 THEN Failure
  ELSE BinanceField(resp.klines, Len(resp.klines) - 1, 4)

get15mAgoPriceFromBinance(resp) ==
  IF resp.err THEN Failure
  ELSE IF Len(resp.klines) < 2 THEN Failure
  ELSE BinanceField(resp.klines, 1, 4)

get15mAgoPriceFromBybit(resp) ==
  IF resp.err THEN Failure
  ELSE IF resp.RetCode # 0 THEN Failure
  ELSE IF Len(resp.List) < 2 THEN Failure
  ELSE BybitField(resp.List, 1, 4)

getHistoricalPriceFromBinance(resp, period) ==
  IF period = "daily" THEN getDailyOpenPriceFromBinance(resp)
  ELSE IF period = "15m" THEN get15mAgoPriceFromBinance(resp)
  ELSE Failure

getHistoricalPriceFromBybit(resp, period) ==
  IF period = "daily" THEN getDailyOpenPriceFromBybit(resp)
  ELSE IF period = "15m" THEN get15mAgoPriceFromBybit(resp)
  ELSE Failure

\* a variant that accepts every answer without an error
UsableIfNoError(r) == ~r.err

\* if err == nil && price > 0 { return price, nil }
Usable(r) == ~r.err /\ r.price > 0

\* a variant that returns the first answer without an error, whatever its price
getHistoricalPriceUnchecked(symbol, period, kl) ==
  LET a == getHistoricalPriceFromBinance(kl.Binance, period)
      b == getHistoricalPriceFromBybit(kl.Bybit, period)
  IN  IF a.panic THEN [price |-> 0, err |-> FALSE, panic |-> TRUE, asked |-> <<"Binance">>]
      ELSE IF ~a.err
        THEN [price |-> a.price, err |-> FALSE, panic |-> FALSE, asked |-> <<"Binance">>]
      ELSE IF b.panic
        THEN [price |-> 0, err |-> FALSE, panic |-> TRUE, asked |-> <<"Binance", "Bybit">>]
      ELSE IF ~b.err
        THEN [price |-> b.price, err |-> FALSE, panic |-> FALSE, asked |-> <<"Binance", "Bybit">>]
      ELSE [price |-> 0, err |-> TRUE, panic |-> FALSE, asked |-> <<"Binance", "Bybit">>]

\* getHistoricalPrice: Binance, then Bybit; kl holds the two exchanges'
\* answers.  The result also tells which sources were asked.
getHistoricalPrice(symbol, period, kl) ==
  LET a == getHistoricalPriceFromBinance(kl.Binance, period)
      b == getHistoricalPriceFromBybit(kl.Bybit, period)
  IN  IF a.panic THEN [price |-> 0, err |-> FALSE, panic |-> TRUE, asked |-> <<"Binance">>]
      ELSE IF Usable(a)
        THEN [price |-> a.price, err |-> FALSE, panic |-> FALSE, asked |-> <<"Binance">>]
      ELSE IF b.panic
        THEN [price |-> 0, err |-> FALSE, panic |-> TRUE, asked |-> <<"Binance", "Bybit">>]
      ELSE IF Usable(b)
        THEN [price |-> b.price, err |-> FALSE, panic |-> FALSE, asked |-> <<"Binance", "Bybit">>]
      ELSE [price |-> 0, err |-> TRUE, panic |-> FALSE, asked |-> <<"Binance", "Bybit">>]

\* the candles of the market, oldest first, per symbol and period
DailyOpen(symbol) == IF symbol = "BTC" THEN 60000 ELSE 200
PrevClose(symbol) == IF symbol = "BTC" THEN 60000 ELSE 200
LatestClose(symbol) == IF symbol = "BTC" THEN 66000 ELSE 205

History(symbol, period) ==
  IF period = "daily"
    THEN << Candle(1, DailyOpen(symbol), PrevClose(symbol)),
            Candle(2, DailyOpen(symbol), LatestClose(symbol)) >>
    ELSE << Candle(1, DailyOpen(symbol), DailyOpen(symbol)),
            Candle(2, DailyOpen(symbol), PrevClose(symbol)),
            Candle(3, PrevClose(symbol), LatestClose(symbol)) >>

\* limit=1 for the daily kline, limit=2 for the 15 minute klines
Limit(period) == IF period = "daily" THEN 1 ELSE 2

\* a kline with a single field, put where the lookup of `period` reads
ShortBinanceKlines(period) ==
  IF period = "daily" THEN << <<JNum(NumStr(1))>> >>
  ELSE << BinanceKlineOf(Candle(1, 1, 1)), <<JNum(NumStr(2))>> >>

ShortBybitKlines(period) ==
  IF period = "daily" THEN << <<NumStr(1)>> >>
  ELSE << BybitKlineOf(Candle(2, 1, 1)), <<NumStr(1)>> >>

\* klines whose price fields are JSON numbers, texts that are no number, zero
OddBinanceKlines(f) == << <<JNum(NumStr(1)), f, f, f, f>>, <<JNum(NumStr(2)), f, f, f, f>> >>

\* the answers explored inside the monitoring loop
BinanceKlineResponses(symbol, period) ==
  { BinanceKlineError,
    BinanceKlineOk(BinanceKlines(History(symbol, period), Limit(period))),
    BinanceKlineOk(ShortBinanceKlines(period)),
    BinanceKlineOk(OddBinanceKlines(JStr(NumStr(0)))) }

BybitKlineResponses(symbol, period) ==
  { BybitKlineError,
    BybitKlineOk(0, BybitKlines(History(symbol, period), Limit(period))),
    BybitKlineOk(0, ShortBybitKlines(period)) }

\* the answers to one getHistoricalPrice call; Bybit is asked only when
\* Binance gave no usable price
KlineInputs(symbol, period) ==
  LET all1 == BinanceKlineResponses(symbol, period)
      done(r) == LET a == getHistoricalPriceFromBinance(r, period) IN a.panic \/ Usable(a)
  IN  {[Binance |-> r1, Bybit |-> BybitKlineError] : r1 \in {r \in all1 : done(r)}}
      \cup {[Binance |-> r1, Bybit |-> r2] :
              r1 \in {r \in all1 : ~done(r)}, r2 \in BybitKlineResponses(symbol, period)}

\* KlineInputs, for the lookups the monitoring loop makes
LoopKlineInputs ==
  [q \in {[symbol |-> sy, period |-> pe] : sy \in Symbols, pe \in {"daily", "15m"}} |->
     KlineInputs(q.symbol, q.period)]

\* ------------------------------------------------------------------------
\* Rule evaluator
\* ------------------------------------------------------------------------
Abs(x) == IF x < 0 THEN 0 - x ELSE x

\* a variant whose comparisons include the threshold itself
PriceRuleMessageInclusive(rule, price) ==
  IF rule.Comparison = Below /\ price <= rule.Threshold
    THEN [text |-> "below", Threshold |-> rule.Threshold]
  ELSE IF rule.Comparison = Above /\ price >= rule.Threshold
    THEN [text |-> "above", Threshold |-> rule.Threshold]
  ELSE [text |-> "", Threshold |-> 0]

\* the test of one threshold rule on a price
PriceRuleMessage(rule, price) ==
  IF rule.Comparison = Below /\ price < rule.Threshold
    THEN [text |-> "below", Threshold |-> rule.Threshold]
  ELSE IF rule.Comparison = Above /\ price > rule.Threshold
    THEN [text |-> "above", Threshold |-> rule.Threshold]
  ELSE [text |-> "", Threshold |-> 0]

\* a variant that ends the loop at a rule whose symbol is not in the snapshot
RECURSIVE CheckPriceRulesStopAtAbsent(_, _, _)
CheckPriceRulesStopAtAbsent(rules, prices, triggered) ==
  IF rules = <<>> THEN triggered
  ELSE LET rule      == Head(rules)
           symbolKey == SymbolKey(rule.Symbol)
       IN  IF symbolKey \notin DOMAIN prices.m THEN triggered
           ELSE LET price   == prices.m[symbolKey]
                    message == PriceRuleMessage(rule, price)
                IN  IF message.text # ""
                      THEN CheckPriceRulesStopAtAbsent(Tail(rules), prices,
                             Append(triggered,
                                    [Symbol |-> rule.Symbol, AlertType |-> "price",
                                     CurrentPrice |-> price, Message |-> message]))
                      ELSE CheckPriceRulesStopAtAbsent(Tail(rules), prices, triggered)

\* the loop of checkPriceAlerts over the rules
RECURSIVE CheckPriceRules(_, _, _)
CheckPriceRules(rules, prices, triggered) ==
  IF rules = <<>> THEN triggered
  ELSE LET rule      == Head(rules)
           symbolKey == SymbolKey(rule.Symbol)
       IN  IF symbolKey \notin DOMAIN prices.m
             THEN CheckPriceRules(Tail(rules), prices, triggered)
           ELSE LET price   == prices.m[symbolKey]
                    message == PriceRuleMessage(rule, price)
                IN  IF message.text # ""
                      THEN CheckPriceRules(Tail(rules), prices,
                             Append(triggered,
                                    [Symbol |-> rule.Symbol, AlertType |-> "price",
                                     CurrentPrice |-> price, Message |-> message]))
                      ELSE CheckPriceRules(Tail(rules), prices, triggered)

checkPriceAlerts(prices) == CheckPriceRules(PriceAlertRules, prices, <<>>)

\* a variant with a strict comparison
ChangeTriggersStrict(currentPrice, basePrice, changePercentRule) ==
  Abs(currentPrice - basePrice) * 100 > changePercentRule * basePrice

\* abs(changePercent) >= rule.ChangePercent, with
\* changePercent := (currentPrice - basePrice) / basePrice * 100 and
\* basePrice > 0, in exact arithmetic
ChangeTriggers(currentPrice, basePrice, changePercentRule) ==
  Abs(currentPrice - basePrice) * 100 >= changePercentRule * basePrice

\* changePercent > 0
Direction(currentPrice, basePrice) == IF currentPrice > basePrice THEN "up" ELSE "down"

\* now.Format(time.RFC3339): the time in whole seconds, as text
FormatRFC3339(t) == NumStr(t \div Second)

\* time.Parse(time.RFC3339, text)
ParseRFC3339(text) ==
  LET p == Sscanf(text) IN [err |-> p.err, t |-> p.val * Second]

\* a variant that looks at the entries of all alert keys
InCooldownAnyKey(history, alertKey, nowT) ==
  \E k \in DOMAIN history :
    LET last == ParseRFC3339(history[k])
    IN  ~last.err /\ nowT - last.t < alertCooldown

\* the cooldown test of checkChangeAlerts on priceHistory.lastAlertTime
InCooldown(history, alertKey, nowT) ==
  /\ alertKey \in DOMAIN history
  /\ LET last == ParseRFC3339(history[alertKey])
     IN  ~last.err /\ nowT - last.t < alertCooldown

\* a variant that leaves the entry of the key as it was during the loop
RecordFiringNotInLoop(history, alertKey, nowT) == history

\* priceHistory.lastAlertTime[alertKey] = now.Format(time.RFC3339)
RecordFiring(history, alertKey, nowT) == MapPut(history, alertKey, FormatRFC3339(nowT))

\* a variant that starts the cooldown of the key when the lookup fails
ChangeRuleStepMarkOnError(rule, prices, nowT, kl, history) ==
  LET symbolKey == SymbolKey(rule.Symbol)
      alertKey  == AlertKey(symbolKey, rule.Period)
      none      == [outcome |-> "absent", key |-> alertKey, current |-> 0, base |-> 0,
                    alert |-> <<>>, history |-> history]
  IN  IF symbolKey \notin DOMAIN prices.m THEN none
      ELSE LET currentPrice == prices.m[symbolKey]
               h == getHistoricalPrice(rule.Symbol, rule.Period, kl)
               seen == [none EXCEPT !.current = currentPrice]
           IN  IF h.panic THEN [seen EXCEPT !.outcome = "panic"]
               ELSE IF h.err THEN [seen EXCEPT !.outcome = "skipped",
                                            !.history = RecordFiring(history, alertKey, nowT)]
               ELSE LET basePrice == h.price
                        based == [seen EXCEPT !.base = basePrice]
                    IN  IF ~ChangeTriggers(currentPrice, basePrice, rule.ChangePercent)
                          THEN [based EXCEPT !.outcome = "quiet"]
                        ELSE IF InCooldown(history, alertKey, nowT)
                          THEN [based EXCEPT !.outcome = "suppressed"]
                        ELSE [based EXCEPT
                                !.outcome = "fired",
                                !.alert = << [Symbol |-> rule.Symbol, AlertType |-> "change",
                                              CurrentPrice |-> currentPrice,
                                              Message |-> [text |-> Direction(currentPrice, basePrice),
                                                           period |-> rule.Period,
                                                           base |-> basePrice]] >>,
                                !.history = RecordFiring(history, alertKey, nowT)]

\* a variant that restarts the cooldown of the key when it suppresses
ChangeRuleStepRefreshOnSuppress(rule, prices, nowT, kl, history) ==
  LET symbolKey == SymbolKey(rule.Symbol)
      alertKey  == AlertKey(symbolKey, rule.Period)
      none      == [outcome |-> "absent", key |-> alertKey, current |-> 0, base |-> 0,
                    alert |-> <<>>, history |-> history]
  IN  IF symbolKey \notin DOMAIN prices.m THEN none
      ELSE LET currentPrice == prices.m[symbolKey]
               h == getHistoricalPrice(rule.Symbol, rule.Period, kl)
               seen == [none EXCEPT !.current = currentPrice]
           IN  IF h.panic THEN [seen EXCEPT !.outcome = "panic"]
               ELSE IF h.err THEN [seen EXCEPT !.outcome = "skipped"]
               ELSE LET basePrice == h.price
                        based == [seen EXCEPT !.base = basePrice]
                    IN  IF ~ChangeTriggers(currentPrice, basePrice, rule.ChangePercent)
                          THEN [based EXCEPT !.outcome = "quiet"]
                        ELSE IF InCooldown(history, alertKey, nowT)
                          THEN [based EXCEPT !.outcome = "suppressed",
                                              !.history = RecordFiring(history, alertKey, nowT)]
                        ELSE [based EXCEPT
                                !.outcome = "fired",
                                !.alert = << [Symbol |-> rule.Symbol, AlertType |-> "change",
                                              CurrentPrice |-> currentPrice,
                                              Message |-> [text |-> Direction(currentPrice, basePrice),
                                                           period |-> rule.Period,
                                                           base |-> basePrice]] >>,
                                !.history = RecordFiring(history, alertKey, nowT)]

\* one iteration of the loop of checkChangeAlerts: what it decides for the
\* rule, the alert it appends and the priceHistory.lastAlertTime it leaves
ChangeRuleStep(rule, prices, nowT, kl, history) ==
  LET symbolKey == SymbolKey(rule.Symbol)
      alertKey  == AlertKey(symbolKey, rule.Period)
      none      == [outcome |-> "absent", key |-> alertKey, current |-> 0, base |-> 0,
                    alert |-> <<>>, history |-> history]
  IN  IF symbolKey \notin DOMAIN prices.m THEN none
      ELSE LET currentPrice == prices.m[symbolKey]
               h == getHistoricalPrice(rule.Symbol, rule.Period, kl)
               seen == [none EXCEPT !.current = currentPrice]
           IN  IF h.panic THEN [seen EXCEPT !.outcome = "panic"]
               ELSE IF h.err THEN [seen EXCEPT !.outcome = "skipped"]
               ELSE LET basePrice == h.price
                        based == [seen EXCEPT !.base = basePrice]
                    IN  IF ~ChangeTriggers(currentPrice, basePrice, rule.ChangePercent)
                          THEN [based EXCEPT !.outcome = "quiet"]
                        ELSE IF InCooldown(history, alertKey, nowT)
                          THEN [based EXCEPT !.outcome = "suppressed"]
                        ELSE [based EXCEPT
                                !.outcome = "fired",
                                !.alert = << [Symbol |-> rule.Symbol, AlertType |-> "change",
                                              CurrentPrice |-> currentPrice,
                                              Message |-> [text |-> Direction(currentPrice, basePrice),
                                                           period |-> rule.Period,
                                                           base |-> basePrice]] >>,
                                !.history = RecordFiring(history, alertKey, nowT)]

\* the loop of checkChangeAlerts over a list of rules; kls gives the answers
\* of the exchanges to the lookup of each symbol and period
RECURSIVE CheckChangeRules(_, _, _, _, _, _)
CheckChangeRules(rules, prices, nowT, kls, history, triggered) ==
  IF rules = <<>> THEN [triggered |-> triggered, history |-> history, panic |-> FALSE]
  ELSE LET rule == Head(rules)
           d    == ChangeRuleStep(rule, prices, nowT,
                                  kls[[symbol |-> rule.Symbol, period |-> rule.Period]],
                                  history)
       IN  IF d.outcome = "panic"
             THEN [triggered |-> triggered, history |-> history, panic |-> TRUE]
           ELSE CheckChangeRules(Tail(rules), prices, nowT, kls, d.history,
                                 triggered \o d.alert)

\* ------------------------------------------------------------------------
\* State
\* ------------------------------------------------------------------------
VARIABLES
  pc,             \* where monitorCryptoPrices stands
  clock,          \* the time, in clock units
  ticks,          \* ticker deliveries so far
  prices,         \* the snapshot of the tick
  source,         \* the source name getAllPrices returned
  calls,          \* the adapters getAllPrices invoked, with their results
  priceAlerts,    \* result of checkPriceAlerts
  changeAlerts,   \* `triggered` of checkChangeAlerts
  now,            \* `now` of checkChangeAlerts
  ruleIdx,        \* position of the loops over rules and symbols
  priceHistory,   \* priceHistory.lastAlertTime: alert key -> RFC3339 text
  lastAlertTime,  \* lastAlertTime of monitorCryptoPrices (zero until set)
  decision,       \* what the last iteration of checkChangeAlerts decided
  firedAt,        \* alert key -> the time its change alert last fired
  unsent,         \* alert keys whose last fired alert was not delivered
  sends,          \* the sendAlerts calls of the tick, with their outcome
  priceFails,     \* failed price alert sends since the last delivered one
  rq,             \* a query to the historical price resolver
  ra              \* the resolver's answer to rq

vars == << pc, clock, ticks, prices, source, calls, priceAlerts, changeAlerts, now,
           ruleIdx, priceHistory, lastAlertTime, decision, firedAt, unsent, sends,
           priceFails, rq, ra >>

\* var lastAlertTime time.Time
ZeroTime == [set |-> FALSE, t |-> 0]

\* a variant that only asks for some time to have passed
SinceAnyTime(last, d) == ~last.set \/ clock - last.t > 0

\* time.Since(lastAlertTime) > alertCooldown; for the zero time the
\* difference saturates at the largest Duration
SinceExceeds(last, d) == ~last.set \/ clock - last.t > d

NoDecision == [outcome |-> "none", key |-> "", current |-> 0, base |-> 0,
               alert |-> <<>>, history |-> EmptyMap, now |-> 0, rule |-> 0,
               before |-> EmptyMap, last |-> ZeroTime, prevFired |-> ZeroTime,
               prevUnsent |-> FALSE]

NoQuery == [kind |-> "none"]

NoAnswer == [kind |-> "none"]

\* time the loop may wait for the next delivery of the ticker, the fetch of
\* the prices included
Waits == {1, alertCooldown - 1, alertCooldown, alertCooldown + 1}

MonitorInit ==
  /\ pc = "wait"
  /\ clock = 0
  /\ ticks = 0
  /\ prices = NilPrices
  /\ source = ""
  /\ calls = <<>>
  /\ priceAlerts = <<>>
  /\ changeAlerts = <<>>
  /\ now = 0
  /\ ruleIdx = 0
  /\ priceHistory = EmptyMap
  /\ lastAlertTime = ZeroTime
  /\ decision = NoDecision
  /\ firedAt = EmptyMap
  /\ unsent = {}
  /\ sends = <<>>
  /\ priceFails = 0

Init == MonitorInit /\ rq = NoQuery /\ ra = NoAnswer

\* ------------------------------------------------------------------------
\* The monitoring loop
\* ------------------------------------------------------------------------
\* for range ticker.C { prices, source := getAllPrices()
Tick ==
  /\ pc = "wait"
  /\ ticks < MaxTicks
  /\ \E d \in Waits, r \in FetchResults :
       /\ clock' = clock + d
       /\ prices' = r.prices
       /\ source' = r.source
       /\ calls' = r.calls
  /\ ticks' = ticks + 1
  /\ pc' = "fetched"
  /\ UNCHANGED << priceAlerts, changeAlerts, now, ruleIdx, priceHistory, lastAlertTime,
                  decision, firedAt, unsent, sends, priceFails, rq, ra >>

\* if prices == nil { continue }
Continue ==
  /\ pc = "fetched"
  /\ prices.isNil
  /\ pc' = "wait"
  /\ source' = ""
  /\ calls' = <<>>
  /\ UNCHANGED << clock, ticks, prices, priceAlerts, changeAlerts, now, ruleIdx,
                  priceHistory, lastAlertTime, decision, firedAt, unsent, sends, priceFails, rq, ra >>

\* priceAlerts := checkPriceAlerts(prices), and the entry of
\* checkChangeAlerts: now := time.Now()
CheckPriceAlerts ==
  /\ pc = "fetched"
  /\ ~prices.isNil
  /\ priceAlerts' = checkPriceAlerts(prices)
  /\ changeAlerts' = <<>>
  /\ now' = clock
  /\ ruleIdx' = 1
  /\ source' = ""
  /\ calls' = <<>>
  /\ pc' = "checkChange"
  /\ UNCHANGED << clock, ticks, prices, priceHistory, lastAlertTime, decision, firedAt,
                  unsent, sends, priceFails, rq, ra >>

\* one iteration of `for _, rule := range config.ChangeAlertRules`
CheckChangeRule ==
  /\ pc = "checkChange"
  /\ ruleIdx <= Len(ChangeAlertRules)
  /\ LET rule == ChangeAlertRules[ruleIdx]
     IN  \E kl \in LoopKlineInputs[[symbol |-> rule.Symbol, period |-> rule.Period]] :
           LET d == ChangeRuleStep(rule, prices, now, kl, priceHistory)
           IN  /\ decision' = [outcome |-> d.outcome, key |-> d.key, current |-> d.current,
                               base |-> d.base, alert |-> d.alert, history |-> d.history,
                               now |-> now, rule |-> ruleIdx, before |-> priceHistory,
                               last |-> lastAlertTime,
                               prevFired |-> IF d.key \in DOMAIN firedAt
                                               THEN [set |-> TRUE, t |-> firedAt[d.key]]
                                               ELSE ZeroTime,
                               prevUnsent |-> d.key \in unsent]
               /\ priceHistory' = d.history
               /\ changeAlerts' = changeAlerts \o d.alert
               /\ firedAt' = IF d.outcome = "fired" THEN MapPut(firedAt, d.key, now)
                             ELSE firedAt
               /\ unsent' = IF d.outcome = "fired" THEN unsent \ {d.key} ELSE unsent
               /\ pc' = IF d.outcome = "panic" THEN "panicked" ELSE "checkChange"
  /\ ruleIdx' = ruleIdx + 1
  /\ UNCHANGED << clock, ticks, prices, source, calls, priceAlerts, now, lastAlertTime,
                  sends, priceFails, rq, ra >>

\* return triggered
ReturnChangeAlerts ==
  /\ pc = "checkChange"
  /\ ruleIdx > Len(ChangeAlertRules)
  /\ pc' = "sendPrice"
  /\ decision' = NoDecision
  /\ UNCHANGED << clock, ticks, prices, source, calls, priceAlerts, changeAlerts, now,
                  ruleIdx, priceHistory, lastAlertTime, firedAt, unsent, sends, priceFails, rq, ra >>

\* sendAlerts(triggered): nothing to send, or the POST, which may fail
SendOutcomes(triggered) == IF Len(triggered) = 0 THEN {TRUE} ELSE {TRUE, FALSE}

\* if len(priceAlerts) > 0 { if time.Since(lastAlertTime) > alertCooldown { ... } }
SendPriceAlerts ==
  /\ pc = "sendPrice"
  /\ IF Len(priceAlerts) > 0 /\ SinceExceeds(lastAlertTime, alertCooldown)
       THEN \E ok \in SendOutcomes(priceAlerts) :
              /\ sends' = Append(sends, [type |-> "price", alerts |-> priceAlerts, ok |-> ok])
              /\ lastAlertTime' = IF ok THEN [set |-> TRUE, t |-> clock] ELSE lastAlertTime
              /\ priceFails' = IF ok THEN 0 ELSE priceFails + 1
       ELSE UNCHANGED << sends, lastAlertTime, priceFails >>
  /\ pc' = "sendChange"
  /\ UNCHANGED << clock, ticks, prices, source, calls, priceAlerts, changeAlerts, now,
                  ruleIdx, priceHistory, decision, firedAt, unsent, rq, ra >>

\* the alert keys whose change alert fired in this tick
FiredNow == {k \in DOMAIN firedAt : firedAt[k] = now}

\* if len(changeAlerts) > 0 { if err := sendAlerts(changeAlerts); err != nil { log } }
SendChangeAlerts ==
  /\ pc = "sendChange"
  /\ IF Len(changeAlerts) > 0
       THEN \E ok \in SendOutcomes(changeAlerts) :
              /\ sends' = Append(sends, [type |-> "change", alerts |-> changeAlerts, ok |-> ok])
              /\ unsent' = IF ok THEN unsent ELSE unsent \cup FiredNow
       ELSE UNCHANGED << sends, unsent >>
  /\ pc' = "log"
  /\ UNCHANGED << clock, ticks, prices, source, calls, priceAlerts, changeAlerts, now,
                  ruleIdx, priceHistory, lastAlertTime, decision, firedAt, priceFails,
                  rq, ra >>

\* the getHistoricalPrice calls of logCurrentPrices: for every symbol of the
\* snapshot, daily then 15m
LogLookups(p) ==
  {[symbol |-> sy, period |-> pe] :
     sy \in {x \in Symbols : SymbolKey(x) \in DOMAIN p.m}, pe \in {"daily", "15m"}}

\* some answers of the exchanges make a lookup of logCurrentPrices panic
LogCanPanic(p) ==
  \E q \in LogLookups(p) : \E kl \in LoopKlineInputs[q] :
    getHistoricalPrice(q.symbol, q.period, kl).panic

\* some answers let every lookup of logCurrentPrices return
LogCanReturn(p) ==
  \A q \in LogLookups(p) : \E kl \in LoopKlineInputs[q] :
    ~getHistoricalPrice(q.symbol, q.period, kl).panic

\* logCurrentPrices(prices), and the end of the loop body: back to the ticker
LogCurrentPrices ==
  /\ pc = "log"
  /\ pc' \in (IF LogCanPanic(prices) THEN {"panicked"} ELSE {})
               \cup (IF LogCanReturn(prices) THEN {"wait"} ELSE {})
  /\ prices' = NilPrices
  /\ priceAlerts' = <<>>
  /\ changeAlerts' = <<>>
  /\ now' = 0
  /\ ruleIdx' = 0
  /\ sends' = <<>>
  /\ UNCHANGED << clock, ticks, source, calls, priceHistory, lastAlertTime, decision,
                  firedAt, unsent, priceFails, rq, ra >>

Next ==
  \/ Tick
  \/ Continue
  \/ CheckPriceAlerts
  \/ CheckChangeRule
  \/ ReturnChangeAlerts
  \/ SendPriceAlerts
  \/ SendChangeAlerts
  \/ LogCurrentPrices

Spec == Init /\ [][Next]_vars

\* ------------------------------------------------------------------------
\* The historical price resolver on its own
\* ------------------------------------------------------------------------
\* candles of a market, oldest first; every open and close differs
MarketCandles == << Candle(1, 99, 100), Candle(2, 104, 105), Candle(3, 109, 110) >>

Histories == {SubSeq(MarketCandles, 1, n) : n \in 0..Len(MarketCandles)}

\* price fields that are no usable price: a JSON number, a text that is no
\* number, zero, a negative number
OddFields == {JNum(NumStr(7)), JStr(BadStr), JStr(NumStr(0)), JStr(<<"-", "5">>)}

\* what Binance may answer when the market holds `history`
BinanceAnswersFor(history, period) ==
  { BinanceKlineError,
    BinanceKlineOk(BinanceKlines(history, Limit(period))),
    BinanceKlineOk(ShortBinanceKlines(period)) }
    \cup {BinanceKlineOk(OddBinanceKlines(f)) : f \in OddFields}

\* what Bybit may answer when the market holds `history`
BybitAnswersFor(history, period) ==
  { BybitKlineError,
    BybitKlineOk(10001, BybitKlines(history, Limit(period))),
    BybitKlineOk(0, BybitKlines(history, Limit(period))),
    BybitKlineOk(0, ShortBybitKlines(period)) }
    \cup {BybitKlineOk(0, << <<NumStr(1), t, t, t, t>>, <<NumStr(2), t, t, t, t>> >>) :
            t \in {BadStr, NumStr(0)}}

QueriesFor(h) ==
  {[kind |-> "resolve", symbol |-> "BTC", period |-> pe, history |-> h,
    kl |-> [Binance |-> a, Bybit |-> b]] :
     pe \in {"daily", "15m", "1h"},
     a \in UNION {BinanceAnswersFor(h, x) : x \in {"daily", "15m"}},
     b \in UNION {BybitAnswersFor(h, x) : x \in {"daily", "15m"}}}

ResolverQueries == UNION {QueriesFor(h) : h \in Histories}

ResolverInit == MonitorInit /\ rq \in ResolverQueries /\ ra = NoAnswer

\* basePrice, err := getHistoricalPrice(symbol, period)
Resolve ==
  /\ rq.kind = "resolve"
  /\ ra = NoAnswer
  /\ ra' = [kind |-> "resolve", out |-> getHistoricalPrice(rq.symbol, rq.period, rq.kl)]
  /\ UNCHANGED << pc, clock, ticks, prices, source, calls, priceAlerts, changeAlerts, now,
                  ruleIdx, priceHistory, lastAlertTime, decision, firedAt, unsent, sends, priceFails, rq >>

SpecResolver == ResolverInit /\ [][Resolve]_vars

\* ------------------------------------------------------------------------
\* The rule evaluator on its own
\* ------------------------------------------------------------------------
\* rule lists given to the loop of checkPriceAlerts
PriceRuleLists ==
  {PriceAlertRules,
   <<[Symbol |-> "SOL", Threshold |-> 100, Comparison |-> Below],
     [Symbol |-> "BTC", Threshold |-> 60000, Comparison |-> Below],
     [Symbol |-> "ETH", Threshold |-> 200, Comparison |-> Above]>>,
   <<[Symbol |-> "BTC", Threshold |-> 60000, Comparison |-> Below],
     [Symbol |-> "ETH", Threshold |-> 200, Comparison |-> Above],
     [Symbol |-> "BTC", Threshold |-> 70000, Comparison |-> Above]>>}
    \cup {<<[Symbol |-> "BTC", Threshold |-> th, Comparison |-> cmp]>> :
            th \in {60000, 70000}, cmp \in {Below, Above, "="}}

\* snapshots given to checkPriceAlerts
PriceSnapshots ==
  LET btc == {EmptyMap} \cup {MapPut(EmptyMap, SymbolKey("BTC"), q) :
                               q \in {59000, 60000, 61000, 70000, 70001}}
  IN  {MakeMap(m) : m \in btc} \cup {MakeMap(MapPut(m, SymbolKey("ETH"), 210)) : m \in btc}

PriceQueries ==
  {[kind |-> "price", rules |-> rs, prices |-> p] : rs \in PriceRuleLists, p \in PriceSnapshots}

\* the time of the evaluations: a time off the whole second
EvalTime == 3 * alertCooldown + 1

\* priceHistory.lastAlertTime before an evaluation of the rule of `key`: no
\* entry, or the entry of a firing `age` clock units ago
HistoriesFor(key) ==
  {EmptyMap}
    \cup {MapPut(EmptyMap, key, FormatRFC3339(EvalTime - age)) :
            age \in {Second, alertCooldown - 1, alertCooldown, alertCooldown + Second}}

\* answers with a price of zero or below zero in the daily kline
NoPriceKlineInputs ==
  {[Binance |-> BinanceKlineOk(OddBinanceKlines(JStr(f))), Bybit |-> r] :
     f \in {NumStr(0), <<"-", "5">>},
     r \in {BybitKlineError,
            BybitKlineOk(0, BybitKlines(History("ETH", "daily"), 1)),
            BybitKlineOk(0, << <<NumStr(1), NumStr(0)>> >>),
            BybitKlineOk(0, << <<NumStr(1), <<"-", "5">> >> >>)}}

\* change rules and snapshots given to one iteration of checkChangeAlerts
ChangeQueries ==
  {[kind |-> "change", rule |-> [Symbol |-> "ETH", ChangePercent |-> 5, Period |-> "daily"],
    prices |-> p, now |-> EvalTime, kl |-> kl, history |-> h] :
     p \in {MakeMap(EmptyMap)}
            \cup {MakeMap(MapPut(EmptyMap, SymbolKey("ETH"), q)) :
                    q \in {190, 191, 200, 209, 210, 211}},
     kl \in KlineInputs("ETH", "daily") \cup NoPriceKlineInputs,
     h \in HistoriesFor(AlertKey(SymbolKey("ETH"), "daily"))}

\* the body of the loop of logCurrentPrices for one symbol of the snapshot:
\* both lookups, then the percent changes that are computed
LogSymbol(symbol, price, klDaily, kl15m) ==
  LET dailyOpen == getHistoricalPrice(symbol, "daily", klDaily)
      price15m  == getHistoricalPrice(symbol, "15m", kl15m)
  IN  IF dailyOpen.panic \/ price15m.panic THEN [panic |-> TRUE, divisors |-> {}]
      ELSE IF ~dailyOpen.err /\ dailyOpen.price > 0
        THEN [panic |-> FALSE,
              divisors |-> {[period |-> "daily", base |-> dailyOpen.price]}
                 \cup (IF ~price15m.err /\ price15m.price > 0
                         THEN {[period |-> "15m", base |-> price15m.price]} ELSE {})]
      ELSE [panic |-> FALSE, divisors |-> {}]

\* symbols and answers given to the loop body of logCurrentPrices
LogQueries ==
  {[kind |-> "log", symbol |-> "ETH", price |-> 210, klDaily |-> d, kl15m |-> m] :
     d \in KlineInputs("ETH", "daily") \cup NoPriceKlineInputs,
     m \in KlineInputs("ETH", "15m")}

\* lists of change rules, with symbols the snapshot may lack
ChangeRuleLists ==
  {ChangeAlertRules,
   <<[Symbol |-> "SOL", ChangePercent |-> 5, Period |-> "daily"],
     [Symbol |-> "ETH", ChangePercent |-> 5, Period |-> "daily"],
     [Symbol |-> "BTC", ChangePercent |-> 5, Period |-> "15m"]>>,
   <<[Symbol |-> "BTC", ChangePercent |-> 1, Period |-> "daily"],
     [Symbol |-> "ETH", ChangePercent |-> 5, Period |-> "daily"]>>}

\* the answers of the exchanges to the lookups of a tick: for every symbol
\* and period the candles of the market, or errors
TickKlineInputs ==
  LET lookups == {[symbol |-> sy, period |-> pe] :
                    sy \in {"BTC", "ETH", "SOL"}, pe \in {"daily", "15m"}}
      good(q) == [Binance |-> BinanceKlineOk(BinanceKlines(History(q.symbol, q.period),
                                                           Limit(q.period))),
                  Bybit |-> BybitKlineError]
      none    == [Binance |-> BinanceKlineError, Bybit |-> BybitKlineError]
  IN  {[q \in lookups |-> good(q)],
       [q \in lookups |-> IF q.symbol = "ETH" THEN none ELSE good(q)]}

\* rule lists and snapshots given to checkChangeAlerts
ChangeListQueries ==
  {[kind |-> "changes", rules |-> rs, prices |-> p, now |-> EvalTime, kls |-> kls,
    history |-> h] :
     rs \in ChangeRuleLists,
     p \in {MakeMap(EmptyMap),
            MakeMap(MapPut(EmptyMap, SymbolKey("ETH"), 210)),
            MakeMap(MapPut(EmptyMap, SymbolKey("BTC"), 59000)),
            MakeMap(MapPut(MapPut(EmptyMap, SymbolKey("BTC"), 59000), SymbolKey("ETH"), 210))},
     kls \in TickKlineInputs,
     h \in HistoriesFor(AlertKey(SymbolKey("ETH"), "daily"))}

RulesInit ==
  /\ MonitorInit
  /\ rq \in PriceQueries \cup ChangeQueries \cup LogQueries \cup ChangeListQueries
  /\ ra = NoAnswer

\* priceAlerts := checkPriceAlerts(prices)
ApplyPriceRules ==
  /\ rq.kind = "price"
  /\ ra = NoAnswer
  /\ ra' = [kind |-> "price", alerts |-> CheckPriceRules(rq.rules, rq.prices, <<>>)]
  /\ UNCHANGED << pc, clock, ticks, prices, source, calls, priceAlerts, changeAlerts, now,
                  ruleIdx, priceHistory, lastAlertTime, decision, firedAt, unsent, sends, priceFails, rq >>

\* one iteration of the loop of checkChangeAlerts
ApplyChangeRule ==
  /\ rq.kind = "change"
  /\ ra = NoAnswer
  /\ ra' = [kind |-> "change",
            d |-> ChangeRuleStep(rq.rule, rq.prices, rq.now, rq.kl, rq.history)]
  /\ UNCHANGED << pc, clock, ticks, prices, source, calls, priceAlerts, changeAlerts, now,
                  ruleIdx, priceHistory, lastAlertTime, decision, firedAt, unsent, sends, priceFails, rq >>

\* one iteration of the loop of logCurrentPrices
ApplyLogSymbol ==
  /\ rq.kind = "log"
  /\ ra = NoAnswer
  /\ ra' = [kind |-> "log", out |-> LogSymbol(rq.symbol, rq.price, rq.klDaily, rq.kl15m)]
  /\ UNCHANGED << pc, clock, ticks, prices, source, calls, priceAlerts, changeAlerts, now,
                  ruleIdx, priceHistory, lastAlertTime, decision, firedAt, unsent, sends, priceFails, rq >>

\* changeAlerts := checkChangeAlerts(prices, alertCooldown)
ApplyChangeRules ==
  /\ rq.kind = "changes"
  /\ ra = NoAnswer
  /\ ra' = [kind |-> "changes",
            out |-> CheckChangeRules(rq.rules, rq.prices, rq.now, rq.kls, rq.history, <<>>)]
  /\ UNCHANGED << pc, clock, ticks, prices, source, calls, priceAlerts, changeAlerts, now,
                  ruleIdx, priceHistory, lastAlertTime, decision, firedAt, unsent, sends, priceFails, rq >>

RulesNext == ApplyPriceRules \/ ApplyChangeRule \/ ApplyLogSymbol \/ ApplyChangeRules

SpecRules == RulesInit /\ [][RulesNext]_vars

\* ------------------------------------------------------------------------
\* getAllPrices followed by the evaluation of one change rule, over the
\* answers of all exchanges
\* ------------------------------------------------------------------------
\* the answers of the four ticker endpoints, whether they are asked or not
AllNets ==
  {[Binance |-> r1, Bybit |-> r2, Coinbase |-> r3, Kraken |-> r4] :
     r1 \in BinanceResponses, r2 \in BybitResponses,
     r3 \in CoinbaseResponses, r4 \in KrakenResponses}

\* the answers of the kline endpoints to the daily lookup of ETH
FetchKlineInputs ==
  LET good1 == BinanceKlineOk(BinanceKlines(History("ETH", "daily"), 1))
      good2 == BybitKlineOk(0, BybitKlines(History("ETH", "daily"), 1))
  IN  {[Binance |-> good1, Bybit |-> BybitKlineError],
       [Binance |-> BinanceKlineError, Bybit |-> good2],
       [Binance |-> BinanceKlineError, Bybit |-> BybitKlineError]}

FetchQueries == {[kind |-> "fetch", net |-> n, kl |-> kl] : n \in AllNets, kl \in FetchKlineInputs}

\* a single-symbol adapter run for the configured symbols `symbols`
SingleSymbolAdapter(name, symbols, resp) ==
  LET m == IF name = "Coinbase" THEN CoinbaseLoop(symbols, resp, EmptyMap)
           ELSE KrakenLoop(symbols, resp, EmptyMap)
  IN  IF DOMAIN m = {} THEN [prices |-> NilPrices, err |-> TRUE]
      ELSE [prices |-> MakeMap(m), err |-> FALSE]

\* configurations of symbols, one of them with a symbol Kraken has no name for
SymbolConfigs == {{"BTC", "ETH"}, {"BTC", "ETH", "DOGE"}, {"DOGE"}}

\* single-symbol adapters, configured symbols and answers per symbol
AdapterQueries ==
  {[kind |-> "adapter", name |-> "Coinbase", symbols |-> ss,
    resp |-> [BTC |-> a, ETH |-> b, DOGE |-> c]] :
     ss \in SymbolConfigs, a \in CoinbaseAnswers("BTC"), b \in CoinbaseAnswers("ETH"),
     c \in {[err |-> TRUE, Amount |-> <<>>], [err |-> FALSE, Amount |-> NumStr(7)]}}
    \cup
  {[kind |-> "adapter", name |-> "Kraken", symbols |-> ss,
    resp |-> [BTC |-> a, ETH |-> b, DOGE |-> [err |-> TRUE, Result |-> <<>>]]] :
     ss \in SymbolConfigs, a \in KrakenAnswers("BTC"), b \in KrakenAnswers("ETH")}

FetchInit == MonitorInit /\ rq \in FetchQueries \cup AdapterQueries /\ ra = NoAnswer

\* prices, source := getAllPrices(); if prices == nil { continue };
\* then the first iteration of checkChangeAlerts on the snapshot
FetchAndCheck ==
  /\ rq.kind = "fetch"
  /\ ra = NoAnswer
  /\ LET got  == getAllPrices(rq.net)
         rule == ChangeAlertRules[1]
     IN  ra' = [kind |-> "fetch",
                got  |-> got,
                h    |-> getHistoricalPrice(rule.Symbol, rule.Period, rq.kl),
                d    |-> IF got.prices.isNil
                           THEN [outcome |-> "none", key |-> "", current |-> 0, base |-> 0,
                                 alert |-> <<>>, history |-> EmptyMap]
                           ELSE ChangeRuleStep(rule, got.prices, EvalTime, rq.kl, EmptyMap)]
  /\ UNCHANGED << pc, clock, ticks, prices, source, calls, priceAlerts, changeAlerts, now,
                  ruleIdx, priceHistory, lastAlertTime, decision, firedAt, unsent, sends, priceFails, rq >>

\* prices, err := source.fn() for Coinbase or Kraken
CallSingleSymbolAdapter ==
  /\ rq.kind = "adapter"
  /\ ra = NoAnswer
  /\ ra' = [kind |-> "adapter", out |-> SingleSymbolAdapter(rq.name, rq.symbols, rq.resp)]
  /\ UNCHANGED << pc, clock, ticks, prices, source, calls, priceAlerts, changeAlerts, now,
                  ruleIdx, priceHistory, lastAlertTime, decision, firedAt, unsent, sends, priceFails, rq >>

FetchNext == FetchAndCheck \/ CallSingleSymbolAdapter

SpecFetch == FetchInit /\ [][FetchNext]_vars

\* ------------------------------------------------------------------------
\* Properties
\* ------------------------------------------------------------------------
\* C1: getAllPrices calls the adapters in the order Binance, Bybit, Coinbase,
\* Kraken; it returns the snapshot and the name of the first adapter that
\* gave no error and a non-empty snapshot, calls no adapter after that one,
\* and never returns the result of an adapter that gave an error or an empty
\* snapshot.
C1_FirstAcceptedSource ==
  pc = "fetched" =>
    LET n == Len(calls)
        good(c) == ~c.err /\ DOMAIN c.prices.m # {}
    IN  /\ n \in 1..4
        /\ \A i \in 1..n : calls[i].name = <<"Binance", "Bybit", "Coinbase", "Kraken">>[i]
        /\ \A i \in 1..(n - 1) : ~good(calls[i])
        /\ IF good(calls[n])
             THEN source = calls[n].name /\ prices = calls[n].prices /\ ~prices.isNil
             ELSE n = 4 /\ source = "" /\ prices.isNil

\* C1 witness: Binance answered an empty snapshot without an error, Bybit
\* failed, and the snapshot of Coinbase is returned without asking Kraken.
C1_Witness ==
  /\ pc = "fetched"
  /\ source = "Coinbase"
  /\ Len(calls) = 3
  /\ ~calls[1].err /\ DOMAIN calls[1].prices.m = {}
  /\ calls[2].err
  /\ prices = calls[3].prices

\* C2 (as claimed): once a change alert of an alert key has fired at time T,
\* a later evaluation that triggers the same rule is suppressed exactly while
\* its time is before T + cooldown.
C2_SuppressedUntilCooldownAfterFiring ==
  (decision.outcome \in {"fired", "suppressed"} /\ decision.prevFired.set) =>
    (decision.outcome = "suppressed"
       <=> decision.now < decision.prevFired.t + alertCooldown)

\* C3 (as claimed): the cooldown entry of a key is written when the evaluator
\* decides to fire, before any send of the tick; a failed send leaves it in
\* place; and after a firing at time T whose send failed, every tick that
\* triggers the rule again before T + cooldown is suppressed.
C3_FailedSendKeepsCooldown ==
  /\ \A k \in DOMAIN firedAt :
       (pc \in {"checkChange", "sendPrice", "sendChange"} /\ firedAt[k] = now) =>
         /\ k \in DOMAIN priceHistory
         /\ \A i \in 1..Len(sends) : sends[i].type # "change"
  /\ \A k \in unsent : k \in DOMAIN priceHistory
  /\ (decision.outcome \in {"fired", "suppressed"} /\ decision.prevUnsent
        /\ decision.now < decision.prevFired.t + alertCooldown)
       => decision.outcome = "suppressed"

\* C4: the price alerts of a tick are sent as one batch, and only when the
\* cooldown has elapsed since the last delivered price alert batch (or none
\* was delivered yet); inside the cooldown none is sent.  The shared time is
\* set only by a send that succeeds, a failed send leaves it as it was, and
\* the next tick with a triggered rule sends again.
C4_PriceBatchGate ==
  [][ /\ pc = "sendPrice" =>
           LET triggered == priceAlerts # <<>>
               attempted == sends' # sends
               sent      == sends'[Len(sends')]
           IN  /\ attempted =>
                    /\ triggered
                    /\ ~lastAlertTime.set \/ clock - lastAlertTime.t >= alertCooldown
                    /\ sends' = Append(sends, [type |-> "price", alerts |-> priceAlerts,
                                               ok |-> sent.ok])
               /\ (triggered /\ lastAlertTime.set /\ clock - lastAlertTime.t < alertCooldown)
                    => ~attempted
               /\ (triggered /\ (~lastAlertTime.set \/ clock - lastAlertTime.t > alertCooldown))
                    => attempted
               /\ (attempted /\ sent.ok) => lastAlertTime' = [set |-> TRUE, t |-> clock]
               /\ (attempted /\ ~sent.ok) => lastAlertTime' = lastAlertTime
               /\ ~attempted => lastAlertTime' = lastAlertTime
               /\ (priceFails > 0 /\ triggered) => attempted
      /\ pc # "sendPrice" => lastAlertTime' = lastAlertTime ]_vars

\* C4 witness: a rule triggers inside the cooldown of a delivered batch and
\* nothing is sent.
C4_Witness ==
  /\ pc = "sendChange"
  /\ priceAlerts # <<>>
  /\ lastAlertTime.set
  /\ lastAlertTime.t < clock
  /\ clock - lastAlertTime.t < alertCooldown
  /\ \A i \in 1..Len(sends) : sends[i].type # "price"

\* C5 (as claimed): for period "15m" the resolver returns the close of the
\* second most recent candle, whichever exchange answers with the candles of
\* the market (Binance oldest first, Bybit newest first).
C5_SecondMostRecentClose ==
  (/\ rq.kind = "resolve" /\ ra.kind = "resolve"
   /\ rq.period = "15m"
   /\ Len(rq.history) >= 2
   /\ ~ra.out.err /\ ~ra.out.panic
   /\ LET by == ra.out.asked[Len(ra.out.asked)]
      IN  \/ by = "Binance"
             /\ rq.kl.Binance = [err |-> FALSE, klines |-> BinanceKlines(rq.history, 2)]
          \/ by = "Bybit"
             /\ rq.kl.Bybit = [err |-> FALSE, RetCode |-> 0,
                               List |-> BybitKlines(rq.history, 2)])
    => /\ ra.out.price = rq.history[Len(rq.history) - 1].close
       /\ ra.out.price # rq.history[Len(rq.history)].close

\* C6 (as claimed): no answer of an exchange crashes the monitoring loop.
C6_NeverPanics == pc # "panicked"

\* C7: with a current price and a base price, a change rule triggers (fires
\* or is held back by the cooldown) exactly when the absolute value of
\* (current - base) / base * 100 is at least rule.ChangePercent, the bound
\* included; 210 against 200 at 5 percent triggers, 209 does not, 190 does;
\* the sign only chooses the direction shown.
C7_ChangeThresholdInclusive ==
  (rq.kind = "change" /\ ra.kind = "change"
     /\ ra.d.outcome \in {"quiet", "suppressed", "fired"}) =>
    LET cur  == ra.d.current
        base == ra.d.base
        diff == IF cur >= base THEN cur - base ELSE base - cur
        over == diff * 100 >= rq.rule.ChangePercent * base
    IN  /\ base > 0
        /\ cur = rq.prices.m[rq.rule.Symbol \o "USDT"]
        /\ (ra.d.outcome # "quiet") <=> over
        /\ (base = 200 /\ cur \in {210, 190}) => ra.d.outcome # "quiet"
        /\ (base = 200 /\ cur \in {209, 191}) => ra.d.outcome = "quiet"
        /\ ra.d.outcome = "fired" =>
             /\ Len(ra.d.alert) = 1
             /\ ra.d.alert[1].Message.text = (IF cur > base THEN "up" ELSE "down")
        /\ ra.d.outcome # "fired" => ra.d.alert = <<>>

\* C7 witness: the price is exactly 5 percent above the base and the rule fires.
C7_Witness ==
  /\ ra.kind = "change"
  /\ ra.d.outcome = "fired"
  /\ ra.d.current = 210
  /\ ra.d.base = 200

\* C8: a threshold rule gives an alert exactly when its symbol key is in the
\* snapshot and the price is strictly below the threshold of a "<" rule or
\* strictly above the threshold of a ">" rule; a price equal to the
\* threshold gives none.
C8_ThresholdStrict ==
  (rq.kind = "price" /\ ra.kind = "price") =>
    LET fires(r) ==
          /\ (r.Symbol \o "USDT") \in DOMAIN rq.prices.m
          /\ \/ r.Comparison = "<" /\ rq.prices.m[r.Symbol \o "USDT"] < r.Threshold
             \/ r.Comparison = ">" /\ rq.prices.m[r.Symbol \o "USDT"] > r.Threshold
        alertOf(r, a) ==
          /\ a.Symbol = r.Symbol
          /\ a.AlertType = "price"
          /\ a.CurrentPrice = rq.prices.m[r.Symbol \o "USDT"]
          /\ a.Message.Threshold = r.Threshold
          /\ a.Message.text = (IF r.Comparison = "<" THEN "below" ELSE "above")
    IN  /\ Len(ra.alerts) = Cardinality({i \in DOMAIN rq.rules : fires(rq.rules[i])})
        /\ \A i \in DOMAIN rq.rules :
             fires(rq.rules[i]) <=> \E j \in DOMAIN ra.alerts : alertOf(rq.rules[i], ra.alerts[j])
        /\ \A j \in DOMAIN ra.alerts : ra.alerts[j].CurrentPrice # ra.alerts[j].Message.Threshold

\* C8 witness: the price equals the threshold of the "<" rule, which gives no
\* alert, while another price gives one.
C8_Witness ==
  /\ rq.kind = "price" /\ ra.kind = "price"
  /\ rq.rules = PriceAlertRules
  /\ SymbolKey("BTC") \in DOMAIN rq.prices.m
  /\ rq.prices.m[SymbolKey("BTC")] = 60000
  /\ ra.alerts = <<>>

\* C9: an iteration of checkChangeAlerts for an alert key reads and writes
\* the cooldown entry of that key only: the entries of the other keys and the
\* shared time of the price alerts stay as they are, the sends change no
\* entry, and whether a triggered rule is suppressed follows from the last
\* firing of its own key alone, whatever the price alert cooldown says.
C9_CooldownDomainsIndependent ==
  /\ [](decision.outcome \in {"fired", "suppressed"} =>
          LET rule == ChangeAlertRules[decision.rule]
          IN  /\ decision.key = rule.Symbol \o "USDT" \o "_" \o rule.Period
              /\ decision.outcome = "suppressed" <=>
                   /\ decision.prevFired.set
                   /\ decision.now - (decision.prevFired.t \div Second) * Second
                        < alertCooldown)
  /\ [][ /\ (pc = "checkChange" /\ ruleIdx' = ruleIdx + 1) =>
              LET rule == ChangeAlertRules[ruleIdx]
                  key  == rule.Symbol \o "USDT" \o "_" \o rule.Period
              IN  /\ \A k \in ((DOMAIN priceHistory) \cup (DOMAIN priceHistory')) \ {key} :
                       /\ k \in DOMAIN priceHistory
                       /\ k \in DOMAIN priceHistory'
                       /\ priceHistory'[k] = priceHistory[k]
                  /\ lastAlertTime' = lastAlertTime
         /\ pc \in {"sendPrice", "sendChange", "log", "fetched", "wait"} =>
              priceHistory' = priceHistory ]_vars

\* C9 witness: a change alert fires while the price alerts are in their
\* cooldown and the entry of another alert key is in its cooldown.
C9_Witness ==
  /\ decision.outcome = "fired"
  /\ decision.last.set
  /\ decision.now - decision.last.t < alertCooldown
  /\ \E k \in DOMAIN decision.before :
       /\ k # decision.key
       /\ decision.now - firedAt[k] < alertCooldown - Second
       /\ decision.history[k] = decision.before[k]

\* C10: when every adapter failed or gave an empty snapshot, getAllPrices
\* returns no snapshot and an empty source name, and the tick ends there: no
\* rule is evaluated, no cooldown entry and no price alert time changes,
\* nothing is sent, and the loop is back at the ticker.
C10_AllSourcesFailed ==
  /\ []((pc = "fetched"
           /\ \A i \in 1..Len(calls) : calls[i].err \/ DOMAIN calls[i].prices.m = {}) =>
          (Len(calls) = 4 /\ prices.isNil /\ source = ""))
  /\ [][ (pc = "fetched"
           /\ \A i \in 1..Len(calls) : calls[i].err \/ DOMAIN calls[i].prices.m = {}) =>
          /\ pc' = "wait"
          /\ UNCHANGED << priceHistory, lastAlertTime, sends, priceAlerts,
                          changeAlerts, decision, firedAt, unsent, priceFails,
                          clock >> ]_vars

\* C10 witness: every source fails in a tick that follows a tick with alerts.
C10_Witness ==
  /\ pc = "fetched"
  /\ Len(calls) = 4
  /\ prices.isNil
  /\ source = ""
  /\ priceHistory # EmptyMap
  /\ lastAlertTime.set

\* C11: getHistoricalPrice asks Binance, then Bybit, and returns the first
\* answer that is no error and has a price > 0; Bybit is asked only after
\* Binance returned an error or a price <= 0; when both returned an error or
\* a price <= 0, or the period is neither "daily" nor "15m", the result is an
\* error and no price.
C11_ResolverFallback ==
  (rq.kind = "resolve" /\ ra.kind = "resolve") =>
    LET a    == getHistoricalPriceFromBinance(rq.kl.Binance, rq.period)
        b    == getHistoricalPriceFromBybit(rq.kl.Bybit, rq.period)
        good(r) == ~r.panic /\ ~r.err /\ r.price > 0
        bad(r)  == ~r.panic /\ (r.err \/ r.price <= 0)
        out  == ra.out
    IN  /\ out.asked \in {<<"Binance">>, <<"Binance", "Bybit">>}
        /\ out.asked = <<"Binance", "Bybit">> => bad(a)
        /\ good(a) => (~out.err /\ ~out.panic /\ out.price = a.price /\ out.asked = <<"Binance">>)
        /\ (bad(a) /\ good(b)) => (~out.err /\ ~out.panic /\ out.price = b.price)
        /\ (bad(a) /\ bad(b)) => (out.err /\ out.price = 0)
        /\ rq.period \notin {"daily", "15m"} => (out.err /\ out.price = 0)
        /\ (~out.err /\ ~out.panic) => out.price > 0
        /\ out.err => out.price = 0

\* C11 witness: Binance answers a price of zero without an error, Bybit is
\* asked and its price is returned.
C11_Witness ==
  /\ rq.kind = "resolve" /\ ra.kind = "resolve"
  /\ getHistoricalPriceFromBinance(rq.kl.Binance, rq.period) = Price(0)
  /\ ra.out.asked = <<"Binance", "Bybit">>
  /\ ~ra.out.err
  /\ ra.out.price > 0

\* C12: a percent change is computed only with a base price > 0, in
\* checkChangeAlerts and in logCurrentPrices; when the sources return only
\* errors or prices of zero or below, the rule is skipped for the tick and
\* logCurrentPrices computes no change.
C12_BasePricePositive ==
  /\ (rq.kind = "change" /\ ra.kind = "change") =>
       LET a == getHistoricalPriceFromBinance(rq.kl.Binance, rq.rule.Period)
           b == getHistoricalPriceFromBybit(rq.kl.Bybit, rq.rule.Period)
           noBase(r) == ~r.panic /\ (r.err \/ r.price <= 0)
       IN  /\ ra.d.outcome \in {"quiet", "suppressed", "fired"} => ra.d.base > 0
           /\ ((rq.rule.Symbol \o "USDT") \in DOMAIN rq.prices.m /\ noBase(a) /\ noBase(b)) =>
                /\ ra.d.outcome = "skipped"
                /\ ra.d.alert = <<>>
                /\ ra.d.history = rq.history
  /\ (rq.kind = "log" /\ ra.kind = "log") =>
       LET a == getHistoricalPriceFromBinance(rq.klDaily.Binance, "daily")
           b == getHistoricalPriceFromBybit(rq.klDaily.Bybit, "daily")
           noBase(r) == ~r.panic /\ (r.err \/ r.price <= 0)
       IN  /\ \A d \in ra.out.divisors : d.base > 0
           /\ (noBase(a) /\ noBase(b)) => ra.out.divisors = {}

\* C12 witness: Binance returns a daily open of zero without an error, Bybit
\* fails, and the rule is skipped.
C12_Witness ==
  /\ rq.kind = "change" /\ ra.kind = "change"
  /\ (rq.rule.Symbol \o "USDT") \in DOMAIN rq.prices.m
  /\ getHistoricalPriceFromBinance(rq.kl.Binance, rq.rule.Period) = Price(0)
  /\ rq.kl.Bybit.err
  /\ ra.d.outcome = "skipped"

\* C13: when the historical lookup of a change rule fails, the rule is
\* skipped for the tick: it gives no alert, no percent change is computed,
\* the cooldown entries stay as they are, and the loop goes on with the
\* remaining change rules, all of which are evaluated before anything is sent.
C13_FailedLookupSkipsRule ==
  /\ [](decision.outcome = "skipped" =>
          /\ decision.alert = <<>>
          /\ decision.base = 0
          /\ decision.history = decision.before
          /\ priceHistory = decision.before
          /\ pc = "checkChange"
          /\ ruleIdx = decision.rule + 1)
  /\ [](pc \in {"sendPrice", "sendChange", "log"} => ruleIdx = Len(ChangeAlertRules) + 1)
  /\ [][ /\ (pc = "checkChange" /\ decision'.outcome = "skipped") =>
              /\ changeAlerts' = changeAlerts
              /\ priceHistory' = priceHistory
              /\ firedAt' = firedAt
              /\ lastAlertTime' = lastAlertTime
         /\ (decision.outcome = "skipped" /\ ruleIdx <= Len(ChangeAlertRules)) =>
              /\ decision'.rule = ruleIdx
              /\ decision'.outcome \in {"absent", "panic", "skipped", "quiet",
                                        "suppressed", "fired"} ]_vars

\* C13 witness: in the first tick ETH is 5 percent above its daily open, the
\* lookups of the two ETH rules fail, and the third rule is evaluated and fires.
C13_Witness ==
  /\ ticks = 1
  /\ decision.rule = 3
  /\ decision.outcome = "fired"
  /\ Len(changeAlerts) = 1
  /\ SymbolKey("ETH") \in DOMAIN prices.m
  /\ prices.m[SymbolKey("ETH")] = 210
  /\ DOMAIN priceHistory = {decision.key}

\* C14: for period "15m" a source that answers fewer than 2 candles gives an
\* error, so the next source is asked, and when no source answers at least
\* 2 candles the resolver returns an error and no price, not the close of
\* the one candle there is.
C14_FewerThanTwoCandles ==
  (rq.kind = "resolve" /\ ra.kind = "resolve" /\ rq.period = "15m") =>
    LET few1 == rq.kl.Binance.err \/ Len(rq.kl.Binance.klines) < 2
        few2 == rq.kl.Bybit.err \/ rq.kl.Bybit.RetCode # 0 \/ Len(rq.kl.Bybit.List) < 2
    IN  /\ few1 => /\ getHistoricalPriceFromBinance(rq.kl.Binance, "15m") = Failure
                   /\ ra.out.asked = <<"Binance", "Bybit">>
        /\ few2 => getHistoricalPriceFromBybit(rq.kl.Bybit, "15m") = Failure
        /\ (few1 /\ few2) => (ra.out.err /\ ~ra.out.panic /\ ra.out.price = 0)

\* C14 witness: each exchange answers one well-formed candle and the
\* resolver returns an error.
C14_Witness ==
  /\ rq.kind = "resolve" /\ ra.kind = "resolve" /\ rq.period = "15m"
  /\ Len(rq.history) = 1
  /\ rq.kl.Binance = BinanceKlineOk(BinanceKlines(rq.history, 2))
  /\ rq.kl.Bybit = BybitKlineOk(0, BybitKlines(rq.history, 2))
  /\ ra.out.err

\* C15 (as claimed): the snapshot a tick evaluates is the result of the one
\* adapter getAllPrices accepted, with nothing of another adapter in it, and
\* the two prices a change rule compares come from the same source.
C15_OneSourcePerTick ==
  (rq.kind = "fetch" /\ ra.kind = "fetch" /\ ~ra.got.prices.isNil) =>
    /\ ra.got.source \in {"Binance", "Bybit", "Coinbase", "Kraken"}
    /\ ra.got.prices = CallSource(ra.got.source, rq.net).prices
    /\ ra.d.outcome \in {"quiet", "suppressed", "fired"} =>
         ra.h.asked[Len(ra.h.asked)] = ra.got.source

\* C15 (amended): the snapshot a tick evaluates is exactly the result of the
\* one adapter getAllPrices accepted, with nothing of another adapter in it,
\* and the current price of a change rule is that adapter's price; the base
\* price it is compared with is the answer of the historical resolver, which
\* asks Binance and then Bybit whatever adapter gave the snapshot.
C15_SnapshotFromOneAdapter ==
  (rq.kind = "fetch" /\ ra.kind = "fetch" /\ ~ra.got.prices.isNil) =>
    LET own == CallSource(ra.got.source, rq.net)
    IN  /\ ra.got.source \in {"Binance", "Bybit", "Coinbase", "Kraken"}
        /\ ~own.err
        /\ ra.got.prices = own.prices
        /\ ra.d.outcome \in {"skipped", "quiet", "suppressed", "fired"} =>
             ra.d.current = own.prices.m[ChangeAlertRules[1].Symbol \o "USDT"]
        /\ ra.d.outcome \in {"quiet", "suppressed", "fired"} =>
             /\ ra.d.base = ra.h.price
             /\ ra.h.asked[Len(ra.h.asked)] \in {"Binance", "Bybit"}

\* C15 witness: Coinbase gives the snapshot, Kraken would have had a price
\* for a symbol the snapshot lacks, and the rule fires on a base price of
\* Bybit.
C15_Witness ==
  /\ rq.kind = "fetch" /\ ra.kind = "fetch"
  /\ ra.got.source = "Coinbase"
  /\ SymbolKey("BTC") \notin DOMAIN ra.got.prices.m
  /\ SymbolKey("BTC") \in DOMAIN getPricesFromKraken(rq.net.Kraken).prices.m
  /\ ra.d.outcome = "fired"
  /\ ra.h.asked = <<"Binance", "Bybit">>

\* C16: a rule whose symbol key is not in the snapshot is skipped and changes
\* nothing for the other rules: checkPriceAlerts and checkChangeAlerts give
\* the alerts, and leave the cooldown entries, they would give without the
\* rules of the missing symbols, and no alert is for a missing symbol.
C16_AbsentSymbolSkipped ==
  /\ (rq.kind = "price" /\ ra.kind = "price") =>
       LET present(r) == (r.Symbol \o "USDT") \in DOMAIN rq.prices.m
       IN  /\ ra.alerts = CheckPriceRules(SelectSeq(rq.rules, present), rq.prices, <<>>)
           /\ \A i \in DOMAIN ra.alerts :
                (ra.alerts[i].Symbol \o "USDT") \in DOMAIN rq.prices.m
  /\ (rq.kind = "changes" /\ ra.kind = "changes") =>
       LET present(r) == (r.Symbol \o "USDT") \in DOMAIN rq.prices.m
       IN  /\ ra.out = CheckChangeRules(SelectSeq(rq.rules, present), rq.prices, rq.now,
                                        rq.kls, rq.history, <<>>)
           /\ \A i \in DOMAIN ra.out.triggered :
                (ra.out.triggered[i].Symbol \o "USDT") \in DOMAIN rq.prices.m

\* C16 witness: the first change rule is for a symbol the snapshot lacks and
\* the two rules after it give their alerts.
C16_Witness ==
  /\ rq.kind = "changes" /\ ra.kind = "changes"
  /\ (rq.rules[1].Symbol \o "USDT") \notin DOMAIN rq.prices.m
  /\ Len(rq.rules) = 3
  /\ Len(ra.out.triggered) = 2

\* C17: in getPricesFromCoinbase and getPricesFromKraken a symbol whose
\* request fails, whose answer holds no usable price, or for which Kraken has
\* no name, is left out and the others are kept: the result holds, under the
\* key symbol + "USDT", the price of every symbol that gave one, and it is an
\* error only when no symbol gave a price.
C17_PerSymbolFailureSkipped ==
  (rq.kind = "adapter" /\ ra.kind = "adapter") =>
    LET text(sy) ==
          IF rq.name = "Coinbase" THEN rq.resp[sy].Amount
          ELSE IF rq.resp[sy].Result = <<>> \/ rq.resp[sy].Result[1] = <<>> THEN <<"x">>
          ELSE rq.resp[sy].Result[1][1]
        gave(sy) ==
          /\ rq.name = "Kraken" => sy \in {"BTC", "ETH", "SOL"}
          /\ ~rq.resp[sy].err
          /\ text(sy) # <<"x">>
        succeeded == {sy \in rq.symbols : gave(sy)}
    IN  /\ succeeded = {} => (ra.out.err /\ ra.out.prices.isNil)
        /\ succeeded # {} =>
             /\ ~ra.out.err
             /\ ~ra.out.prices.isNil
             /\ DOMAIN ra.out.prices.m = {sy \o "USDT" : sy \in succeeded}
             /\ \A sy \in succeeded :
                  NumStr(ra.out.prices.m[sy \o "USDT"]) = text(sy)

\* C17 witness: Kraken is asked for BTC, ETH and a symbol it has no name
\* for; the BTC request fails and the result is the price of ETH alone.
C17_Witness ==
  /\ rq.kind = "adapter" /\ ra.kind = "adapter"
  /\ rq.name = "Kraken"
  /\ rq.symbols = {"BTC", "ETH", "DOGE"}
  /\ rq.resp["BTC"].err
  /\ ~ra.out.err
  /\ DOMAIN ra.out.prices.m = {"ETHUSDT"}

\* C18: an entry whose price text does not parse is left out of the
\* adapter's snapshot and is no error: a bulk adapter returns exactly the
\* entries whose price parsed, with their values, and an error only when the
\* request failed; a single-symbol adapter leaves the symbol out; and an
\* adapter whose snapshot is empty without an error is passed over by
\* getAllPrices like a failed one.
C18_UnparsableEntryLeftOut ==
  (rq.kind = "fetch" /\ ra.kind = "fetch") =>
    \A i \in DOMAIN ra.got.calls :
      LET c == ra.got.calls[i]
      IN  /\ c.name \in {"Binance", "Bybit"} =>
               LET resp   == rq.net[c.name]
                   parsed == {j \in DOMAIN resp.tickers : resp.tickers[j].Price # <<"x">>}
               IN  /\ c.err <=> resp.err
                   /\ ~c.err =>
                        /\ ~c.prices.isNil
                        /\ DOMAIN c.prices.m = {resp.tickers[j].Symbol : j \in parsed}
                        /\ \A j \in parsed :
                             NumStr(c.prices.m[resp.tickers[j].Symbol]) = resp.tickers[j].Price
          /\ c.name = "Coinbase" =>
               \A sy \in {"BTC", "ETH"} :
                 (sy \o "USDT") \in DOMAIN c.prices.m <=>
                   (~rq.net.Coinbase[sy].err /\ rq.net.Coinbase[sy].Amount # <<"x">>)
          /\ c.name = "Kraken" =>
               \A sy \in {"BTC", "ETH"} :
                 (sy \o "USDT") \in DOMAIN c.prices.m <=>
                   /\ ~rq.net.Kraken[sy].err
                   /\ rq.net.Kraken[sy].Result # <<>>
                   /\ rq.net.Kraken[sy].Result[1] # <<>>
                   /\ rq.net.Kraken[sy].Result[1][1] # <<"x">>
          /\ (~c.err /\ DOMAIN c.prices.m = {}) =>
               /\ ra.got.source # c.name
               /\ i < Len(ra.got.calls) \/ (ra.got.source = "" /\ ra.got.prices.isNil)

\* C18 witness: every price text in the answer of Bybit is unparsable, Bybit
\* returns an empty snapshot without an error, and Coinbase is taken.
C18_Witness ==
  /\ rq.kind = "fetch" /\ ra.kind = "fetch"
  /\ Len(rq.net.Bybit.tickers) = 2
  /\ Len(ra.got.calls) = 3
  /\ ~ra.got.calls[2].err
  /\ DOMAIN ra.got.calls[2].prices.m = {}
  /\ ra.got.source = "Coinbase"

\* C19 (as claimed): two consecutive firings of the change alert of one alert
\* key are at least the cooldown apart in elapsed time, although the time of
\* the firing is kept as an RFC3339 text of whole seconds.
C19_FiringsFullCooldownApart ==
  (decision.outcome = "fired" /\ decision.prevFired.set) =>
    decision.now - decision.prevFired.t >= alertCooldown

\* C20: the cooldown entry of a key changes only in the iteration that emits
\* an alert for that key; an iteration that suppresses the rule, finds it not
\* triggered, or skips it leaves every entry as it is, so a rule that keeps
\* triggering does not extend its window and fires again once the cooldown
\* has passed since the last firing; an entry is never removed and its time
\* never decreases.
C20_EntryChangesOnlyOnEmit ==
  /\ [][ /\ \A k \in (DOMAIN priceHistory) \cup (DOMAIN priceHistory') :
              (k \notin DOMAIN priceHistory \/ k \notin DOMAIN priceHistory'
                 \/ priceHistory'[k] # priceHistory[k]) =>
                /\ pc = "checkChange"
                /\ decision'.outcome = "fired"
                /\ decision'.key = k
                /\ Len(decision'.alert) = 1
                /\ changeAlerts' = changeAlerts \o decision'.alert
                /\ k \in DOMAIN priceHistory'
         /\ \A k \in DOMAIN priceHistory :
              /\ k \in DOMAIN priceHistory'
              /\ ParseRFC3339(priceHistory'[k]).t >= ParseRFC3339(priceHistory[k]).t
         /\ (pc = "checkChange" /\ ruleIdx' = ruleIdx + 1 /\ decision'.outcome # "fired") =>
              (priceHistory' = priceHistory /\ changeAlerts' = changeAlerts) ]_vars
  /\ []((decision.outcome \in {"fired", "suppressed"} /\ decision.prevFired.set
           /\ decision.now - decision.prevFired.t >= alertCooldown)
          => decision.outcome = "fired")

\* C20 witness: in a later tick the rule triggers inside the window of its
\* last firing, is suppressed, and the entry of its key is the one recorded
\* at that firing.
C20_Witness ==
  /\ ticks = 2
  /\ decision.outcome = "suppressed"
  /\ decision.prevFired.set
  /\ decision.prevFired.t < decision.now
  /\ priceHistory[decision.key] = FormatRFC3339(decision.prevFired.t)

\* C21: within one tick at most one change alert is emitted per alert key.
\* No two alerts of `triggered` belong to the same symbol and period; and
\* when a rule triggers whose key an earlier rule of the same tick has fired
\* and recorded, the cooldown being at least one minute, the rule is
\* suppressed by that entry: it appends no alert and leaves the entry as
\* the first rule wrote it.
C21_OneChangeAlertPerKeyPerTick ==
  /\ \A i, j \in DOMAIN changeAlerts :
       (i # j) =>
         AlertKey(SymbolKey(changeAlerts[i].Symbol), changeAlerts[i].Message.period)
           # AlertKey(SymbolKey(changeAlerts[j].Symbol), changeAlerts[j].Message.period)
  /\ (/\ AlertCooldownMinutes >= 1
      /\ decision.outcome \in {"fired", "suppressed"}
      /\ decision.prevFired.set
      /\ decision.prevFired.t = decision.now)
       => /\ decision.outcome = "suppressed"
          /\ decision.alert = <<>>
          /\ decision.key \in DOMAIN decision.before
          /\ decision.before[decision.key] = FormatRFC3339(decision.now)
          /\ decision.history = decision.before
          /\ \E i \in DOMAIN changeAlerts :
               AlertKey(SymbolKey(changeAlerts[i].Symbol), changeAlerts[i].Message.period)
                 = decision.key

\* C21 witness: the second rule of a symbol and period triggers in the tick
\* in which the first one fired, at a time that is not a whole second, and
\* is suppressed; `triggered` holds the one alert of the first rule.
C21_Witness ==
  /\ pc = "checkChange"
  /\ decision.rule = 2
  /\ ChangeAlertRules[1].Symbol = ChangeAlertRules[2].Symbol
  /\ ChangeAlertRules[1].Period = ChangeAlertRules[2].Period
  /\ ChangeAlertRules[1].ChangePercent # ChangeAlertRules[2].ChangePercent
  /\ decision.outcome = "suppressed"
  /\ decision.prevFired.set
  /\ decision.prevFired.t = decision.now
  /\ decision.now % Second # 0
  /\ Len(changeAlerts) = 1
  /\ changeAlerts[1].Symbol = ChangeAlertRules[1].Symbol

====
